---- MODULE Spec2Model ----
(***************************************************************************)
(* CHSRMT (src/app.py): the heat-stress computation and state engine of a   *)
(* Streamlit script.  The script runs top to bottom once per user event (a  *)
(* "cycle"); st.session_state (ss) is the only state that survives a cycle. *)
(*                                                                         *)
(* Numbers.  The source computes in binary floating point.  The model      *)
(* keeps that shape at a reduced width: a number is an integer count of     *)
(* ticks of 1/1024, and every arithmetic operation rounds its exact result  *)
(* to 15 significant bits (round half to even), never finer than one tick.  *)
(* Rounding is therefore visible, as it is in the source: a value converted *)
(* to display units and back need not be the value started from.            *)
(*                                                                         *)
(* Not modelled: exceptions raised by the network calls of BLOCK 3 and 4,   *)
(* the band_units radio (display only), and the rendering itself.          *)
(***************************************************************************)
EXTENDS Integers, Sequences, FiniteSets, TLC

----------------------------------------------------------------------------
(* Reduced-width floating point                                            *)

Tick == 2^10

SigBitsTop == 2^15

Abs(n) == IF n < 0 THEN -n ELSE n

RECURSIVE UlpOf(_)
UlpOf(a) == IF a < SigBitsTop THEN 1 ELSE 2 * UlpOf(a \div 2)

Nearest(q, r, den) ==
  IF 2 * r < den THEN q
  ELSE IF 2 * r > den THEN q + 1
  ELSE IF q % 2 = 0 THEN q ELSE q + 1

RoundHE(num, den) == Nearest(num \div den, num % den, den)

Quantize(num, den, u) == u * RoundHE(num, den * u)

Fl(num, den) == Quantize(num, den, UlpOf(Abs(num) \div den))

FAdd(a, b) == Fl(a + b, 1)
FSub(a, b) == Fl(a - b, 1)
FMul(a, b) == Fl(a * b, Tick)
FDiv(a, b) == IF b < 0 THEN Fl(-(a * Tick), -b) ELSE Fl(a * Tick, b)
FMax(a, b) == IF a >= b THEN a ELSE b
FMin(a, b) == IF a <= b THEN a ELSE b

Lit(num, den) == Fl(num * Tick, den)

RECURSIVE SqrtSearch(_, _, _)
SqrtSearch(n, lo, hi) ==
  IF hi - lo <= 1 THEN lo
  ELSE IF ((lo + hi) \div 2) * ((lo + hi) \div 2) <= n
       THEN SqrtSearch(n, (lo + hi) \div 2, hi)
       ELSE SqrtSearch(n, lo, (lo + hi) \div 2)

SqrtRound(n, r) == IF n - r * r > r THEN r + 1 ELSE r

FSqrt(a) == Fl(SqrtRound(a * Tick, SqrtSearch(a * Tick, 0, 46341)), 1)

QuarterPi == Lit(785398, 1000000)
HalfPi    == Lit(1570796, 1000000)
TanPi8    == Lit(414214, 1000000)

AtanHorner(t, t2) ==
  FMul(t, FSub(Tick, FMul(t2, FSub(Lit(1, 3),
                 FMul(t2, FSub(Lit(1, 5), FMul(t2, Lit(1, 7))))))))

AtanSeries(t) == AtanHorner(t, FMul(t, t))

RECURSIVE FAtan(_)
FAtan(x) ==
  IF x < 0 THEN -FAtan(-x)
  ELSE IF x > Tick THEN FSub(HalfPi, FAtan(FDiv(Tick, x)))
  ELSE IF x > TanPi8
       THEN FAdd(QuarterPi, AtanSeries(FDiv(FSub(x, Tick), FAdd(x, Tick))))
  ELSE AtanSeries(x)

FPow15(a) == FMul(a, FSqrt(a))

----------------------------------------------------------------------------
(* Unit conversion helpers                                                 *)

c_to_f(c) == FAdd(FDiv(FMul(c, 9 * Tick), 5 * Tick), 32 * Tick)
f_to_c(f) == FDiv(FMul(FSub(f, 32 * Tick), 5 * Tick), 9 * Tick)
ms_to_mph(v) == FMul(v, Lit(223694, 100000))
mph_to_ms(v) == FDiv(v, Lit(223694, 100000))
kpa_to_inhg(k) == FMul(k, Lit(2953, 10000))
inhg_to_kpa(i) == FDiv(i, Lit(2953, 10000))

----------------------------------------------------------------------------
(* BLOCK 5 numerics                                                        *)

Twb(db_c, rh) ==
  FSub(FAdd(FSub(FAdd(
      FMul(db_c, FAtan(FMul(Lit(151977, 1000000),
                            FSqrt(FAdd(rh, Lit(831366, 100000)))))),
      FAtan(FAdd(db_c, rh))),
      FAtan(FSub(rh, Lit(167633, 100000)))),
      FMul(FMul(Lit(391838, 100000000), FPow15(rh)),
           FAtan(FMul(Lit(23101, 1000000), rh)))),
      Lit(468604, 100000))

WindFactor(ws_ms) ==
  FDiv(Tick, FAdd(Tick, FMul(Lit(4, 10), FSqrt(FMax(ws_ms, Lit(1, 10))))))

GtAdj(db_c, gt_c, ws_ms) ==
  FAdd(db_c, FMul(FSub(gt_c, db_c), WindFactor(ws_ms)))

WbgtRaw(db_c, rh, gt_c, ws_ms) ==
  FAdd(FAdd(FMul(Lit(7, 10), Twb(db_c, rh)),
            FMul(Lit(2, 10), GtAdj(db_c, gt_c, ws_ms))),
       FMul(Lit(1, 10), db_c))

----------------------------------------------------------------------------
(* Values that may be absent (Python None, or a key not yet in ss)          *)

None == {}
Some(v) == {v}
Val(o) == CHOOSE v \in o : TRUE

----------------------------------------------------------------------------
(* Bounds of the exploration                                               *)

MaxCycles == 4
MaxClock == 1

(* What the user may type or the weather service may return, in degrees C, *)
(* percent, m/s and kPa.                                                    *)
DbVals == {Lit(320, 10), Lit(317, 10)}
RhVals == {Lit(60, 1), Lit(70, 1)}
WsVals == {Lit(10, 10), Lit(20, 10)}
PVals  == {Lit(1013, 10), Lit(1000, 10)}
GtVals == {Lit(350, 10), Lit(347, 10)}
DeltaVals == {Lit(60, 10)}
Places == {[label |-> "Dubai, Dubai, AE", latitude |-> 25, longitude |-> 55]}
WeatherVals == {[temp |-> Some(Lit(300, 10)), rh |-> Some(Lit(50, 1)),
                 ws |-> Some(Lit(30, 10))],
                [temp |-> None, rh |-> None, ws |-> None]}

Cats == {"ppe", "veh", "rad", "adhoc"}
PresetIdx == 1..4
PresetChoices == {1, 4}

----------------------------------------------------------------------------
(* Session defaults (BLOCK 1) and widget defaults                          *)

Presets(cat) ==
  CASE cat = "ppe"   -> <<0, 1 * Tick, 2 * Tick, 3 * Tick>>
    [] cat = "veh"   -> <<0, 1 * Tick, 2 * Tick, 3 * Tick>>
    [] cat = "rad"   -> <<0, 2 * Tick, 4 * Tick, 5 * Tick>>
    [] cat = "adhoc" -> <<0, 1 * Tick, 2 * Tick, 4 * Tick>>

ss_default ==
  [ landing_open      |-> FALSE,
    units             |-> "metric",
    db_c              |-> Lit(320, 10),
    rh_pct            |-> Lit(60, 1),
    ws_ms             |-> Lit(10, 10),
    p_kpa             |-> Lit(1013, 10),
    gt_c              |-> Lit(350, 10),
    wbgt_raw_c        |-> None,
    wbgt_eff_c        |-> None,
    wbgt_base_c       |-> None,
    wbgt_base_frozen  |-> None,
    penalties_applied |-> FALSE,
    prev_env          |-> None,
    pen_clo_c         |-> 0,
    pen_veh_c         |-> 0,
    pen_rad_c         |-> 0,
    pen_adhoc_c       |-> 0,
    total_penalty_c   |-> 0,
    preset            |-> [c \in Cats |-> None],
    preset__prev      |-> [c \in Cats |-> None],
    preset_sel        |-> [c \in Cats |-> 1],
    delta_input       |-> [c \in Cats |-> 0],
    accl_status       |-> "Acclimatized",
    thr_A_c           |-> None,
    thr_B_c           |-> None,
    thr_C_c           |-> None,
    risk_band         |-> None,
    chsi_scaled       |-> None,
    lat               |-> None,
    lon               |-> None,
    place_label       |-> None,
    audit_log         |-> <<>> ]

(* What one run shows: the event that triggered it, the messages it        *)
(* printed, the sidebar's thresholds, the weather response it received,    *)
(* and what it found at its read points.                                   *)
ui_default ==
  [ event |-> "none", msgs |-> {}, sidebar |-> <<0, 0, 0>>,
    response |-> None,
    reset |-> FALSE, froze |-> FALSE, frozen_at_apply |-> FALSE, eff_at_apply |-> FALSE,
    eff_at_classify |-> FALSE, has_log |-> FALSE, can_export |-> FALSE ]

(* assigned is the history of the writes to the frozen baseline: the      *)
(* signature and the value of each assignment, in order.                   *)
VARIABLES ss, ui, now, cycles, assigned

vars == <<ss, ui, now, cycles, assigned>>

----------------------------------------------------------------------------
(* One run of the script.  ev is the user event that triggered the run, t  *)
(* the wall-clock second at which it runs.  A run is one widget event:     *)
(* Streamlit reruns the script after each one.  The run is carried through *)
(* the blocks as c = [ss, ui]: the session state and what has been shown.  *)

AddMsg(c, m) == [c EXCEPT !.ui.msgs = @ \cup {m}]

(* Keyed widgets: the frontend value is in ss before the script starts.    *)
WidgetState(s, ev) ==
  CASE ev.kind = "set_accl" -> [s EXCEPT !.accl_status = ev.val]
    [] ev.kind = "enter_delta" -> [s EXCEPT !.delta_input[ev.cat] = ev.val]
    [] ev.kind = "select_preset" -> [s EXCEPT !.preset_sel[ev.cat] = ev.val]
    [] OTHER -> s

(* BLOCK 2: display units, and the thresholds the sidebar shows.           *)
SidebarThresholds(s) ==
  << IF s.thr_A_c = None THEN 29 * Tick ELSE Val(s.thr_A_c),
     IF s.thr_B_c = None THEN 32 * Tick ELSE Val(s.thr_B_c),
     IF s.thr_C_c = None THEN 35 * Tick ELSE Val(s.thr_C_c) >>

Block2(c, ev) ==
  [c EXCEPT !.ss.units = IF ev.kind = "set_units" THEN ev.val ELSE @,
            !.ui.sidebar = SidebarThresholds(c.ss)]

(* BLOCK 3: city lookup; the first result is the selectbox's choice.        *)
Block3(c, ev) ==
  IF ev.kind # "search" THEN c
  ELSE IF ev.val = <<>> THEN AddMsg(c, "search_no_match")
  ELSE [c EXCEPT !.ss.lat = Some(ev.val[1].latitude),
                 !.ss.lon = Some(ev.val[1].longitude),
                 !.ss.place_label = Some(ev.val[1].label)]

(* BLOCK 4: weather fetch.                                                  *)
OrElse(o, d) == IF o = None THEN d ELSE Val(o)

StoreWeather(s, temp_c, rh_pct, ws_ms) ==
  [s EXCEPT !.db_c = temp_c, !.rh_pct = rh_pct, !.ws_ms = ws_ms,
            !.p_kpa = Lit(1013, 10),
            !.gt_c = FAdd(temp_c, 3 * Tick)]

Block4(c, ev) ==
  IF ev.kind # "fetch" THEN c
  ELSE IF c.ss.lat = None \/ c.ss.lon = None
       THEN AddMsg(c, "fetch_no_location")
  ELSE AddMsg([c EXCEPT !.ss = StoreWeather(@, OrElse(ev.val.temp, @.db_c),
                                            OrElse(ev.val.rh, @.rh_pct),
                                            OrElse(ev.val.ws, @.ws_ms)),
                        !.ui.response = Some(ev.val)],
              "weather_updated")

(* Manual entry: each field is read back from its number input, which      *)
(* shows the stored value in display units unless the user typed into it.  *)
ShownTemp(units, c) == IF units = "metric" THEN c ELSE c_to_f(c)
ShownWind(units, v) == IF units = "metric" THEN v ELSE ms_to_mph(v)
ShownPressure(units, k) == IF units = "metric" THEN k ELSE kpa_to_inhg(k)

Typed(ev, kind, shown) == IF ev.kind = kind THEN ev.val ELSE shown

StoreEntry(s, db, rh, ws, p, gt) ==
  IF s.units = "metric"
  THEN [s EXCEPT !.db_c = db, !.rh_pct = rh, !.ws_ms = ws,
                 !.p_kpa = p, !.gt_c = gt]
  ELSE [s EXCEPT !.db_c = f_to_c(db), !.rh_pct = rh,
                 !.ws_ms = mph_to_ms(ws), !.p_kpa = inhg_to_kpa(p),
                 !.gt_c = f_to_c(gt)]

ManualEntry(s, ev) ==
  StoreEntry(s, Typed(ev, "set_db", ShownTemp(s.units, s.db_c)),
                Typed(ev, "set_rh", s.rh_pct),
                Typed(ev, "set_ws", ShownWind(s.units, s.ws_ms)),
                Typed(ev, "set_p", ShownPressure(s.units, s.p_kpa)),
                Typed(ev, "set_gt", ShownTemp(s.units, s.gt_c)))

(* BLOCK 5: signature check, raw WBGT, freeze, effective tie.               *)
Reading(s) == [db |-> s.db_c, rh |-> s.rh_pct, gt |-> s.gt_c, ws |-> s.ws_ms]

(* Variant: pressure is part of the signature.                             *)
EnvNowWithPressure(s) ==
  [db |-> s.db_c, rh |-> s.rh_pct, gt |-> s.gt_c, ws |-> s.ws_ms,
   p |-> s.p_kpa]

EnvNow(s) == [db |-> s.db_c, rh |-> s.rh_pct, gt |-> s.gt_c, ws |-> s.ws_ms]

(* Variant: no change detection, every run counts as a change.             *)
SignatureAlwaysChanged(s) == TRUE

SignatureChanged(s) == s.prev_env # Some(EnvNow(s))

(* Variant: a changed reading does not clear the frozen baseline.         *)
ResetKeepingBaseline(s) ==
  IF SignatureChanged(s)
  THEN [s EXCEPT !.penalties_applied = FALSE,
                 !.total_penalty_c = 0,
                 !.wbgt_eff_c = None,
                 !.prev_env = Some(EnvNow(s))]
  ELSE [s EXCEPT !.prev_env = Some(EnvNow(s))]

(* Variant: a changed reading clears the baseline but not the penalties.   *)
ResetKeepingPenalties(s) ==
  IF SignatureChanged(s)
  THEN [s EXCEPT !.wbgt_base_frozen = None,
                 !.prev_env = Some(EnvNow(s))]
  ELSE [s EXCEPT !.prev_env = Some(EnvNow(s))]

ResetOnChange(s) ==
  IF SignatureChanged(s)
  THEN [s EXCEPT !.wbgt_base_frozen = None,
                 !.penalties_applied = FALSE,
                 !.total_penalty_c = 0,
                 !.wbgt_eff_c = None,
                 !.prev_env = Some(EnvNow(s))]
  ELSE [s EXCEPT !.prev_env = Some(EnvNow(s))]

(* Variant: the baseline is never frozen.                                  *)
FreezeNever(s, wbgt_raw_c) == s

(* Variant: the baseline is taken to be absent on every run.               *)
FreezeAlwaysDue(s) == TRUE

FreezeDue(s) == s.wbgt_base_frozen = None

Freeze(s, wbgt_raw_c) ==
  IF FreezeDue(s)
  THEN [s EXCEPT !.wbgt_base_frozen = Some(wbgt_raw_c)]
  ELSE s

(* Variant: the effective value is tied to the baseline on every run.      *)
TieAlways(s) == [s EXCEPT !.wbgt_eff_c = s.wbgt_base_frozen]

(* Variant: the effective value is never tied to the baseline.             *)
TieNever(s) == s

TieEffective(s) ==
  IF ~s.penalties_applied
  THEN [s EXCEPT !.wbgt_eff_c = s.wbgt_base_frozen]
  ELSE s

(* Variant: the raw WBGT also moves with the barometric pressure.          *)
StoreRawWithPressure(s, wbgt_raw_c) ==
  [s EXCEPT !.wbgt_raw_c =
              Some(FAdd(wbgt_raw_c, FSub(s.p_kpa, Lit(1013, 10)))),
            !.wbgt_base_c =
              Some(FAdd(wbgt_raw_c, FSub(s.p_kpa, Lit(1013, 10))))]

StoreRaw(s, wbgt_raw_c) ==
  [s EXCEPT !.wbgt_raw_c = Some(wbgt_raw_c), !.wbgt_base_c = Some(wbgt_raw_c)]

(* The raw WBGT of every reading the bounded inputs can produce, computed  *)
(* once.                                                                   *)
WeatherTemps == {Val(w.temp) : w \in {x \in WeatherVals : x.temp # None}}
WeatherWinds == {Val(w.ws) : w \in {x \in WeatherVals : x.ws # None}}
WeatherRhs   == {Val(w.rh) : w \in {x \in WeatherVals : x.rh # None}}

TempRoundTrip(base) == base \cup {f_to_c(c_to_f(v)) : v \in base}
WindRoundTrip(base) == base \cup {mph_to_ms(ms_to_mph(v)) : v \in base}

DbReach == TempRoundTrip(TempRoundTrip(DbVals \cup WeatherTemps))
GtReach ==
  TempRoundTrip(TempRoundTrip(GtVals \cup {FAdd(d, 3 * Tick) : d \in DbReach}))
WsReach == WindRoundTrip(WindRoundTrip(WsVals \cup WeatherWinds))
RhReach == RhVals \cup WeatherRhs

WbgtTable ==
  [e \in [db : DbReach, rh : RhReach, gt : GtReach, ws : WsReach] |->
     WbgtRaw(e.db, e.rh, e.gt, e.ws)] @@ <<>>

FreezeAndTie(s, wbgt_raw_c) ==
  TieEffective(Freeze(StoreRaw(s, wbgt_raw_c), wbgt_raw_c))

Block5(c) ==
  [c EXCEPT !.ss = FreezeAndTie(ResetOnChange(@), WbgtTable[Reading(@)]),
            !.ui.reset = SignatureChanged(c.ss),
            !.ui.froze = FreezeDue(ResetOnChange(c.ss))]

(* Penalty staging: preset selectbox, forced reset of the number input     *)
(* when the preset label changed, then the number input read back in C.    *)
(* The option labels carry the display unit, so after a unit switch the    *)
(* selectbox is a new widget and shows its first option.                   *)
PresetSel(s, cat) ==
  IF s.preset[cat] # None /\ Val(s.preset[cat]).units # s.units
  THEN 1 ELSE s.preset_sel[cat]

PresetDisplay(units, preset_c) ==
  IF units = "metric" THEN preset_c
  ELSE FDiv(FMul(preset_c, 9 * Tick), 5 * Tick)

FollowPreset(s, cat, sel, label) ==
  IF s.preset__prev[cat] # Some(label)
  THEN [s EXCEPT !.preset_sel[cat] = sel,
                 !.preset[cat] = Some(label),
                 !.delta_input[cat] = PresetDisplay(s.units, Presets(cat)[sel]),
                 !.preset__prev[cat] = Some(label)]
  ELSE [s EXCEPT !.preset_sel[cat] = sel,
                 !.preset[cat] = Some(label)]

_ensure_number_follows_preset(s, cat) ==
  FollowPreset(s, cat, PresetSel(s, cat),
               [idx |-> PresetSel(s, cat), units |-> s.units])

number_delta(s, cat) ==
  IF s.units = "metric" THEN s.delta_input[cat]
  ELSE FDiv(FMul(s.delta_input[cat], 5 * Tick), 9 * Tick)

StorePenalties(s) ==
  [s EXCEPT !.pen_clo_c = number_delta(s, "ppe"),
            !.pen_veh_c = number_delta(s, "veh"),
            !.pen_rad_c = number_delta(s, "rad"),
            !.pen_adhoc_c = number_delta(s, "adhoc")]

Staging(s) ==
  StorePenalties(
    _ensure_number_follows_preset(
      _ensure_number_follows_preset(
        _ensure_number_follows_preset(
          _ensure_number_follows_preset(s, "ppe"), "veh"), "rad"), "adhoc"))

(* BLOCK 5B: apply.                                                        *)
(* Variant: the clamp has a ceiling but no floor.                          *)
ClampCeilingOnly(x, lo, hi) == FMin(x, hi)

Clamp(x, lo, hi) == FMin(FMax(x, lo), hi)

TotalPenalty(ppe, encl, rad, ahoc) ==
  FMin(FAdd(FAdd(FAdd(Clamp(ppe, 0, 3 * Tick), Clamp(encl, 0, 3 * Tick)),
                 Clamp(rad, 0, 5 * Tick)),
            Clamp(ahoc, 0, 4 * Tick)),
       10 * Tick)

(* Variant: apply also moves the frozen baseline to the effective value.   *)
CommitRebased(s, wbgt_base_c, total_penalty_c) ==
  [s EXCEPT !.total_penalty_c = total_penalty_c,
            !.wbgt_eff_c = Some(FAdd(wbgt_base_c, total_penalty_c)),
            !.wbgt_base_frozen = Some(FAdd(wbgt_base_c, total_penalty_c)),
            !.penalties_applied = TRUE]

(* Variant: apply adds the total to the previous effective value.         *)
CommitOnEffective(s, wbgt_base_c, total_penalty_c) ==
  [s EXCEPT !.total_penalty_c = total_penalty_c,
            !.wbgt_eff_c = Some(FAdd(OrElse(s.wbgt_eff_c, wbgt_base_c),
                                     total_penalty_c)),
            !.penalties_applied = TRUE]

Commit(s, wbgt_base_c, total_penalty_c) ==
  [s EXCEPT !.total_penalty_c = total_penalty_c,
            !.wbgt_eff_c = Some(FAdd(wbgt_base_c, total_penalty_c)),
            !.penalties_applied = TRUE]

(* Variant: without a frozen baseline, apply falls back to the raw WBGT.    *)
ApplyPenaltiesOnRaw(c) ==
  AddMsg([c EXCEPT !.ss = Commit(@, IF @.wbgt_base_frozen = None
                                     THEN Val(@.wbgt_base_c)
                                     ELSE Val(@.wbgt_base_frozen),
                                  TotalPenalty(@.pen_clo_c, @.pen_veh_c,
                                               @.pen_rad_c, @.pen_adhoc_c))],
         "apply_ok")

ApplyPenalties(c) ==
  IF c.ss.wbgt_base_frozen = None THEN AddMsg(c, "apply_no_baseline")
  ELSE AddMsg([c EXCEPT !.ss = Commit(@, Val(@.wbgt_base_frozen),
                                      TotalPenalty(@.pen_clo_c, @.pen_veh_c,
                                                   @.pen_rad_c, @.pen_adhoc_c))],
              "apply_ok")

AtApply(c) ==
  [c EXCEPT !.ui.frozen_at_apply = c.ss.wbgt_base_frozen # None,
            !.ui.eff_at_apply = c.ss.wbgt_eff_c # None]

(* Variant: the staged penalties are committed on every run.               *)
ApplyEveryRun(c, ev) == ApplyPenalties(AtApply(c))

Block5B(c, ev) ==
  IF ev.kind = "apply" THEN ApplyPenalties(AtApply(c)) ELSE AtApply(c)

(* BLOCK 6: thresholds.                                                    *)
Thresholds(accl_status) ==
  IF accl_status = "Acclimatized"
  THEN <<29 * Tick, 32 * Tick, 35 * Tick>>
  ELSE <<FSub(29 * Tick, 2 * Tick), FSub(32 * Tick, 2 * Tick),
         FSub(35 * Tick, 2 * Tick)>>

StoreThresholds(s, thr) ==
  [s EXCEPT !.thr_A_c = Some(thr[1]), !.thr_B_c = Some(thr[2]),
            !.thr_C_c = Some(thr[3])]

(* Variant: the thresholds are derived once and then kept.                 *)
Block6Once(s) ==
  IF s.thr_A_c = None THEN StoreThresholds(s, Thresholds(s.accl_status)) ELSE s

Block6(s) == StoreThresholds(s, Thresholds(s.accl_status))

(* BLOCK 7: classification and surrogate.                                  *)
(* Variant: the first interval is closed at A.                            *)
BandClosedAtA(wbgt_eff, A, B, C) ==
  IF wbgt_eff <= A THEN "Low environmental heat stress"
  ELSE IF wbgt_eff < B THEN "Heightened / Caution"
  ELSE IF wbgt_eff < C THEN "High strain warning"
  ELSE "Withdrawal / Stop Work"

Band(wbgt_eff, A, B, C) ==
  IF wbgt_eff < A THEN "Low environmental heat stress"
  ELSE IF wbgt_eff < B THEN "Heightened / Caution"
  ELSE IF wbgt_eff < C THEN "High strain warning"
  ELSE "Withdrawal / Stop Work"

(* Variant: the rescaling without its clamp.                               *)
ChsiUnclamped(wbgt_eff) ==
  FMul(FDiv(FSub(wbgt_eff, 25 * Tick), 10 * Tick), 50 * Tick)

ChsiScaled(wbgt_eff) ==
  FMax(0, FMin(50 * Tick,
               FMul(FDiv(FSub(wbgt_eff, 25 * Tick), 10 * Tick), 50 * Tick)))

Classify(s, wbgt_eff) ==
  [s EXCEPT !.risk_band = Some(Band(wbgt_eff, Val(s.thr_A_c), Val(s.thr_B_c),
                                    Val(s.thr_C_c))),
            !.chsi_scaled = Some(ChsiScaled(wbgt_eff))]

Block7(c) ==
  IF c.ss.wbgt_eff_c = None
  THEN AddMsg([c EXCEPT !.ui.eff_at_classify = FALSE], "no_wbgt_yet")
  ELSE [c EXCEPT !.ss = Classify(@, Val(@.wbgt_eff_c)),
                 !.ui.eff_at_classify = TRUE]

(* BLOCK 8: audit log and export button.  A formatted number is the        *)
(* integer its decimal string denotes, in units of the last printed digit. *)
Fmt1(x) == RoundHE(x * 10, Tick)
Fmt0(x) == RoundHE(x, Tick)

LogEntry(s, t) ==
  [ timestamp |-> t,
    location  |-> s.place_label,
    DB        |-> Fmt1(s.db_c),
    RH        |-> Fmt0(s.rh_pct),
    GT        |-> Fmt1(s.gt_c),
    WBGT_baseline |-> Fmt1(OrElse(s.wbgt_base_c, 0)),
    Penalty_total |-> Fmt1(s.total_penalty_c),
    WBGT_eff  |-> Fmt1(OrElse(s.wbgt_eff_c, 0)),
    Risk      |-> s.risk_band,
    CHSI_scaled |-> Fmt0(OrElse(s.chsi_scaled, 0)) ]

(* Variant: the candidate is appended without the duplicate test.          *)
AppendAlways(audit_log, log_entry) == Append(audit_log, log_entry)

AppendIfNew(audit_log, log_entry) ==
  IF audit_log = <<>> \/ log_entry # audit_log[Len(audit_log)]
  THEN Append(audit_log, log_entry)
  ELSE audit_log

(* Variant: an entry is built on every run, applied or not.                *)
AuditLogUngated(s, t) ==
  [s EXCEPT !.audit_log = AppendIfNew(@, LogEntry(s, t))]

(* Variant: an entry is logged only when the committed total is positive. *)
AuditLogWhenPenalised(s, t) ==
  IF s.penalties_applied /\ s.wbgt_eff_c # None /\ s.total_penalty_c > 0
  THEN [s EXCEPT !.audit_log = AppendIfNew(@, LogEntry(s, t))]
  ELSE s

AuditLog(s, t) ==
  IF s.penalties_applied /\ s.wbgt_eff_c # None
  THEN [s EXCEPT !.audit_log = AppendIfNew(@, LogEntry(s, t))]
  ELSE s

(* Variant: export is enabled whenever the log has entries.                *)
ExportWhenLogged(c) ==
  [c EXCEPT !.ui.has_log = c.ss.audit_log # <<>>,
            !.ui.can_export = c.ss.audit_log # <<>>]

ExportControls(c) ==
  [c EXCEPT !.ui.has_log = c.ss.audit_log # <<>>,
            !.ui.can_export = c.ss.penalties_applied]

Block8(c, t) == ExportControls([c EXCEPT !.ss = AuditLog(@, t)])

(* The whole script.                                                       *)
(* Variant: the audit entry is built before the run has classified.       *)
RunLoggingBeforeClassify(c, ev, t) ==
  Block7(Block8([Block5B(c, ev) EXCEPT !.ss = Block6(@)], t))

(* The script from the apply button to its end.                            *)
RunFromApply(c, ev, t) ==
  Block8(Block7([Block5B(c, ev) EXCEPT !.ss = Block6(@)]), t)

Run(s, ev, t) ==
  RunFromApply(
    [Block5(
       [Block4(
          Block3(
            Block2([ss |-> WidgetState(s, ev),
                    ui |-> [ui_default EXCEPT !.event = ev.kind]], ev),
            ev),
          ev)
        EXCEPT !.ss = ManualEntry(@, ev)])
     EXCEPT !.ss = Staging(@)],
    ev, t)

----------------------------------------------------------------------------
(* Actions: one per user event.                                            *)

Init ==
  /\ ss = ss_default
  /\ ui = ui_default
  /\ now = 0
  /\ cycles = 0
  /\ assigned = <<>>

Assignment(s) == [sig |-> EnvNow(s), value |-> s.wbgt_base_frozen]

Recorded(history, r) ==
  IF r.ui.froze THEN Append(history, Assignment(r.ss)) ELSE history

Times == {t \in {now, now + 1} : t <= MaxClock}

Cycle(s, ev) ==
  /\ cycles < MaxCycles
  /\ \E t \in Times :
       \E r \in {Run(s, ev, t)} :
         /\ ss' = r.ss
         /\ ui' = r.ui
         /\ now' = t
         /\ assigned' = Recorded(assigned, r)
  /\ cycles' = cycles + 1

(* Landing gate: the start button opens it and reruns the script.          *)
Start ==
  /\ ~ss.landing_open
  /\ Cycle([ss EXCEPT !.landing_open = TRUE], [kind |-> "start"])

Rerun ==
  /\ ss.landing_open
  /\ Cycle(ss, [kind |-> "rerun"])

SetUnits ==
  /\ ss.landing_open
  /\ \E u \in {"metric", "imperial"} :
       /\ u # ss.units
       /\ Cycle(ss, [kind |-> "set_units", val |-> u])

SetDryBulb ==
  /\ ss.landing_open
  /\ \E v \in DbVals :
       /\ ShownTemp(ss.units, v) # ShownTemp(ss.units, ss.db_c)
       /\ Cycle(ss, [kind |-> "set_db", val |-> ShownTemp(ss.units, v)])

SetRH ==
  /\ ss.landing_open
  /\ \E v \in RhVals :
       /\ v # ss.rh_pct
       /\ Cycle(ss, [kind |-> "set_rh", val |-> v])

SetWind ==
  /\ ss.landing_open
  /\ \E v \in WsVals :
       /\ ShownWind(ss.units, v) # ShownWind(ss.units, ss.ws_ms)
       /\ Cycle(ss, [kind |-> "set_ws", val |-> ShownWind(ss.units, v)])

SetPressure ==
  /\ ss.landing_open
  /\ \E v \in PVals :
       /\ ShownPressure(ss.units, v) # ShownPressure(ss.units, ss.p_kpa)
       /\ Cycle(ss, [kind |-> "set_p", val |-> ShownPressure(ss.units, v)])

SetGlobe ==
  /\ ss.landing_open
  /\ \E v \in GtVals :
       /\ ShownTemp(ss.units, v) # ShownTemp(ss.units, ss.gt_c)
       /\ Cycle(ss, [kind |-> "set_gt", val |-> ShownTemp(ss.units, v)])

SelectPreset ==
  /\ ss.landing_open
  /\ \E cat \in Cats, i \in PresetChoices :
       /\ i # ss.preset_sel[cat]
       /\ Cycle(ss, [kind |-> "select_preset", cat |-> cat, val |-> i])

EnterDelta ==
  /\ ss.landing_open
  /\ \E cat \in Cats, v \in DeltaVals :
       /\ v # ss.delta_input[cat]
       /\ Cycle(ss, [kind |-> "enter_delta", cat |-> cat, val |-> v])

Apply ==
  /\ ss.landing_open
  /\ Cycle(ss, [kind |-> "apply"])

SetAccl ==
  /\ ss.landing_open
  /\ \E a \in {"Acclimatized", "Not acclimatized"} :
       /\ a # ss.accl_status
       /\ Cycle(ss, [kind |-> "set_accl", val |-> a])

SearchCity ==
  /\ ss.landing_open
  /\ \E results \in {<<>>} \cup {<<p>> : p \in Places} :
       Cycle(ss, [kind |-> "search", val |-> results])

FetchWeather ==
  /\ ss.landing_open
  /\ \E current \in WeatherVals :
       Cycle(ss, [kind |-> "fetch", val |-> current])

Next ==
  \/ Start
  \/ Rerun
  \/ SetUnits
  \/ SetDryBulb
  \/ SetRH
  \/ SetWind
  \/ SetPressure
  \/ SetGlobe
  \/ SelectPreset
  \/ EnterDelta
  \/ Apply
  \/ SetAccl
  \/ SearchCity
  \/ FetchWeather

Spec == Init /\ [][Next]_vars

----------------------------------------------------------------------------
(* The penalty aggregator on its own: the session after the gate opened    *)
(* and a value was entered into each of the four number inputs, then the   *)
(* apply button.  cycles counts the runs after Init.                       *)

PenInputs == {0 - Tick, 0, 2 * Tick, 3 * Tick, 4 * Tick, 6 * Tick}

Opened == Run([ss_default EXCEPT !.landing_open = TRUE], [kind |-> "start"], 0)

Entered(s, cat, v) ==
  Run(s, [kind |-> "enter_delta", cat |-> cat, val |-> v], 0)

EnteredAll(a, b, c, d) ==
  Entered(Entered(Entered(Entered(Opened.ss, "ppe", a).ss, "veh", b).ss,
                  "rad", c).ss,
          "adhoc", d)

PenInit ==
  \E a \in PenInputs, b \in PenInputs, c \in PenInputs, d \in PenInputs :
    \E r \in {EnteredAll(a, b, c, d)} :
      /\ ss = r.ss
      /\ ui = r.ui
      /\ now = 0
      /\ cycles = 0
      /\ assigned = <<Assignment(Opened.ss)>>

PenNext == Apply

SpecPenalty == PenInit /\ [][PenNext]_vars

(* The classifier on its own: thresholds and band for an effective WBGT    *)
(* and an acclimatization status drawn from bounded sets.                  *)

EffVals ==
  {20 * Tick + k * (Tick \div 4) : k \in 0..68}
    \cup {t * Tick + d : t \in {27, 29, 30, 32, 33, 35}, d \in {0 - 2, 2}}
    \cup {Val(Opened.ss.wbgt_eff_c)}

BandInit ==
  \E e \in EffVals, a \in {"Acclimatized", "Not acclimatized"} :
    /\ ss = [Opened.ss EXCEPT !.wbgt_eff_c = Some(e), !.accl_status = a]
    /\ ui = Opened.ui
    /\ now = 0
    /\ cycles = 0
    /\ assigned = <<Assignment(Opened.ss)>>

ClassifyStep ==
  /\ cycles = 0
  /\ \E r \in {Block7([ss |-> Block6(ss), ui |-> ui])} :
       /\ ss' = r.ss
       /\ ui' = r.ui
  /\ cycles' = 1
  /\ UNCHANGED <<now, assigned>>

BandNext == ClassifyStep

SpecBand == BandInit /\ [][BandNext]_vars

(* The apply handler on its own: the session with four staged penalties,   *)
(* its baseline either frozen or absent as the reset of BLOCK 5 leaves it  *)
(* (frozen and effective None, flag false, total 0), handed to the apply   *)
(* button; the step runs the script from the button to its end.            *)

BaselineCleared(s) ==
  [s EXCEPT !.wbgt_base_frozen = None,
            !.penalties_applied = FALSE,
            !.total_penalty_c = 0,
            !.wbgt_eff_c = None]

GuardInit ==
  \E a \in PenInputs, b \in PenInputs, c \in PenInputs, d \in PenInputs :
    \E r \in {EnteredAll(a, b, c, d)} :
      /\ ss \in {r.ss, BaselineCleared(r.ss)}
      /\ ui = r.ui
      /\ now = 0
      /\ cycles = 0
      /\ assigned = <<Assignment(Opened.ss)>>

ApplyFromButton ==
  /\ cycles = 0
  /\ \E t \in Times :
       \E r \in {RunFromApply([ss |-> ss,
                               ui |-> [ui_default EXCEPT !.event = "apply"]],
                              [kind |-> "apply"], t)} :
         /\ ss' = r.ss
         /\ ui' = r.ui
         /\ now' = t
  /\ cycles' = 1
  /\ UNCHANGED assigned

GuardNext == ApplyFromButton

SpecApplyGuard == GuardInit /\ [][GuardNext]_vars

----------------------------------------------------------------------------
(* Properties.                                                             *)

SigFields(s) == <<s.db_c, s.rh_pct, s.gt_c, s.ws_ms>>

(* The step is a cycle that has a previous cycle and the same signature.   *)
SameSignatureCycle ==
  ss.prev_env # None /\ SigFields(ss') = SigFields(ss)

(* The step is a cycle that has a previous cycle and another signature.    *)
ChangedSignatureCycle ==
  ss.prev_env # None /\ SigFields(ss') # SigFields(ss)

StagingEvents == {"select_preset", "enter_delta"}

(* C1: in a cycle whose four signature fields equal those of the previous  *)
(* cycle, the frozen baseline at the end of the cycle is the value it had  *)
(* at the end of the previous cycle, while the raw WBGT is stored again.   *)
C1_FreezeIdempotent ==
  [][SameSignatureCycle =>
       /\ ss.wbgt_base_frozen # None
       /\ ss'.wbgt_base_frozen = ss.wbgt_base_frozen
       /\ ss'.wbgt_raw_c = Some(WbgtTable[EnvNow(ss')])]_vars

C1_Witness ==
  /\ ~ui.reset
  /\ ui.event = "apply"
  /\ ss.total_penalty_c > 0
  /\ ss.wbgt_base_frozen = ss.wbgt_raw_c

(* C2: in a cycle where a signature field differs from the previous        *)
(* cycle's, the frozen baseline at the end of that cycle is present and is *)
(* the raw WBGT computed from the new reading.                             *)
C2_ChangeRearms ==
  [][ChangedSignatureCycle =>
       /\ ss'.wbgt_base_frozen # None
       /\ ss'.wbgt_base_frozen = Some(WbgtTable[EnvNow(ss')])
       /\ ss'.wbgt_base_frozen = ss'.wbgt_raw_c]_vars

C2_Witness ==
  /\ cycles >= 2
  /\ ui.reset
  /\ ui.event = "set_db"
  /\ ss.wbgt_base_frozen = Some(WbgtTable[EnvNow(ss)])
  /\ ss.wbgt_base_frozen # Opened.ss.wbgt_base_frozen

(* C3: in a cycle where the signature changed and apply was not pressed,   *)
(* the cycle ends with penalties_applied false, a committed total of 0 and *)
(* the effective WBGT equal to the new frozen baseline; and a cycle where  *)
(* the signature changed never ends with a total committed before it.      *)
C3_PenaltiesDoNotSurviveChange ==
  [][ChangedSignatureCycle =>
       /\ ui'.event # "apply" =>
            /\ ~ss'.penalties_applied
            /\ ss'.total_penalty_c = 0
            /\ ss'.wbgt_eff_c = ss'.wbgt_base_frozen
       /\ ss'.total_penalty_c # 0 => ui'.event = "apply"
       /\ ss'.wbgt_eff_c =
            Some(FAdd(Val(ss'.wbgt_base_frozen), ss'.total_penalty_c))]_vars

C3_Witness ==
  /\ cycles >= 2
  /\ ui.reset
  /\ ui.event # "apply"
  /\ ~ss.penalties_applied
  /\ ss.audit_log # <<>>
  /\ ss.audit_log[Len(ss.audit_log)].Penalty_total > 0
  /\ ss.wbgt_eff_c = ss.wbgt_base_frozen

(* C4: penalties_applied goes from false to true only in a cycle where     *)
(* apply was pressed and succeeded, and from true to false only in a cycle *)
(* where the signature changed.                                            *)
C4_OnlyWritersOfApplied ==
  [][/\ (~ss.penalties_applied /\ ss'.penalties_applied) =>
          (ui'.event = "apply" /\ "apply_ok" \in ui'.msgs)
     /\ (ss.penalties_applied /\ ~ss'.penalties_applied) =>
          SigFields(ss') # SigFields(ss)]_vars

C4_Witness ==
  /\ ss.penalties_applied
  /\ ui.event = "set_p"
  /\ ~ui.reset

(* C5: from the first cycle on, the frozen baseline and the effective WBGT *)
(* are present where apply is evaluated, at classification and at the end  *)
(* of the cycle, so neither the "no frozen baseline" error nor the "no     *)
(* computed WBGT value yet" notice is ever shown.                          *)
C5_NoBaselineNeverObservable ==
  ss.landing_open =>
    /\ ss.wbgt_base_frozen # None
    /\ ss.wbgt_eff_c # None
    /\ ui.frozen_at_apply
    /\ ui.eff_at_apply
    /\ ui.eff_at_classify
    /\ "apply_no_baseline" \notin ui.msgs
    /\ "no_wbgt_yet" \notin ui.msgs

C5_Witness ==
  /\ cycles >= 2
  /\ ui.reset
  /\ ui.event = "fetch"
  /\ ui.frozen_at_apply
  /\ ui.eff_at_classify

(* C6: a successful apply leaves effective = frozen + TotalPenalty of the  *)
(* staged penalties and penalties_applied true; a later cycle with the     *)
(* same signature and no apply keeps that total and that effective value.  *)
C6_ApplyCommitsAndPersists ==
  [][/\ "apply_ok" \in ui'.msgs =>
          /\ ss'.penalties_applied
          /\ ss'.total_penalty_c =
               TotalPenalty(ss'.pen_clo_c, ss'.pen_veh_c,
                            ss'.pen_rad_c, ss'.pen_adhoc_c)
          /\ ss'.wbgt_eff_c =
               Some(FAdd(Val(ss'.wbgt_base_frozen), ss'.total_penalty_c))
     /\ (ss.penalties_applied /\ SameSignatureCycle /\ ui'.event # "apply") =>
          /\ ss'.penalties_applied
          /\ ss'.total_penalty_c = ss.total_penalty_c
          /\ ss'.wbgt_eff_c =
               Some(FAdd(Val(ss'.wbgt_base_frozen), ss.total_penalty_c))]_vars

C6_Witness ==
  /\ ss.penalties_applied
  /\ ui.event = "rerun"
  /\ ss.total_penalty_c > 0
  /\ ss.wbgt_eff_c = Some(FAdd(Val(ss.wbgt_base_frozen), ss.total_penalty_c))

(* C7: at the end of every cycle in which penalties_applied is false, the  *)
(* effective WBGT is the frozen baseline.                                  *)
C7_UnappliedTracksFrozen ==
  (ss.landing_open /\ ~ss.penalties_applied) =>
    /\ ss.wbgt_eff_c # None
    /\ ss.wbgt_eff_c = ss.wbgt_base_frozen

C7_Witness ==
  /\ ss.landing_open
  /\ ~ss.penalties_applied
  /\ ui.event = "select_preset"
  /\ ss.pen_clo_c > 0
  /\ ss.wbgt_eff_c = ss.wbgt_base_frozen

(* C8: the total committed by apply is min(10, clamp(ppe,0,3) +           *)
(* clamp(enclosure,0,3) + clamp(radiant,0,5) + clamp(adhoc,0,4)), lies in  *)
(* [0,10], and is 10 whenever the clamped sum exceeds 10.                  *)
ClampTo(x, ceiling) == IF x < 0 THEN 0 ELSE IF x > ceiling THEN ceiling ELSE x

ClampedSum(s) ==
  ClampTo(s.pen_clo_c, 3 * Tick) + ClampTo(s.pen_veh_c, 3 * Tick)
    + ClampTo(s.pen_rad_c, 5 * Tick) + ClampTo(s.pen_adhoc_c, 4 * Tick)

C8_TotalPenaltyClampedAndCapped ==
  ui.event = "apply" =>
    /\ "apply_ok" \in ui.msgs
    /\ ss.total_penalty_c =
         (IF ClampedSum(ss) < 10 * Tick THEN ClampedSum(ss) ELSE 10 * Tick)
    /\ ss.total_penalty_c >= 0
    /\ ss.total_penalty_c <= 10 * Tick
    /\ ClampedSum(ss) > 10 * Tick => ss.total_penalty_c = 10 * Tick

C8_Witness ==
  /\ ui.event = "apply"
  /\ ss.pen_clo_c = 3 * Tick
  /\ ss.pen_veh_c = 2 * Tick
  /\ ss.pen_rad_c = 4 * Tick
  /\ ss.pen_adhoc_c = 4 * Tick
  /\ ss.total_penalty_c = 10 * Tick

(* C9: a cycle in which a preset or a free-form penalty value is changed   *)
(* (and apply is not pressed) leaves the committed total, the effective    *)
(* WBGT, the frozen baseline and penalties_applied as they were.           *)
C9_StagingDoesNotCommit ==
  [][ui'.event \in StagingEvents =>
       /\ ss'.total_penalty_c = ss.total_penalty_c
       /\ ss'.wbgt_eff_c = ss.wbgt_eff_c
       /\ ss'.wbgt_base_frozen = ss.wbgt_base_frozen
       /\ ss'.penalties_applied = ss.penalties_applied]_vars

C9_Witness ==
  /\ ss.penalties_applied
  /\ ui.event \in StagingEvents
  /\ ClampedSum(ss) > ss.total_penalty_c
  /\ ss.wbgt_eff_c = Some(FAdd(Val(ss.wbgt_base_frozen), ss.total_penalty_c))

(* C10: the classifier returns one band by half-open intervals: Low iff    *)
(* e < A, Caution iff A <= e < B, High strain iff B <= e < C, Withdrawal   *)
(* iff e >= C.                                                             *)
BandIs(s, band) == s.risk_band = Some(band)

HalfOpenBands(s, e, A, B, C) ==
  /\ A < B /\ B < C
  /\ BandIs(s, "Low environmental heat stress") <=> e < A
  /\ BandIs(s, "Heightened / Caution") <=> (A <= e /\ e < B)
  /\ BandIs(s, "High strain warning") <=> (B <= e /\ e < C)
  /\ BandIs(s, "Withdrawal / Stop Work") <=> e >= C

C10_HalfOpenBands ==
  cycles = 1 =>
    HalfOpenBands(ss, Val(ss.wbgt_eff_c), Val(ss.thr_A_c), Val(ss.thr_B_c),
                  Val(ss.thr_C_c))

C10_Witness ==
  /\ cycles = 1
  /\ ss.wbgt_eff_c = ss.thr_A_c
  /\ BandIs(ss, "Heightened / Caution")


(* C11: the classifier uses the thresholds of the acclimatization status   *)
(* selected in the same cycle: (29,32,35) when acclimatized, (27,30,33)    *)
(* when not, so A < B < C, and an effective WBGT in [27,29) is Low for     *)
(* acclimatized and Caution for non-acclimatized workers.                  *)
ThresholdsOf(accl_status) ==
  IF accl_status = "Acclimatized"
  THEN <<Some(29 * Tick), Some(32 * Tick), Some(35 * Tick)>>
  ELSE <<Some(27 * Tick), Some(30 * Tick), Some(33 * Tick)>>

InLowerShiftRange(e) == 27 * Tick <= e /\ e < 29 * Tick

C11_ThresholdsFollowAcclimatization ==
  ss.landing_open =>
    /\ <<ss.thr_A_c, ss.thr_B_c, ss.thr_C_c>> = ThresholdsOf(ss.accl_status)
    /\ Val(ss.thr_A_c) < Val(ss.thr_B_c)
    /\ Val(ss.thr_B_c) < Val(ss.thr_C_c)
    /\ HalfOpenBands(ss, Val(ss.wbgt_eff_c), Val(ss.thr_A_c),
                     Val(ss.thr_B_c), Val(ss.thr_C_c))
    /\ InLowerShiftRange(Val(ss.wbgt_eff_c)) =>
         BandIs(ss, IF ss.accl_status = "Acclimatized"
                    THEN "Low environmental heat stress"
                    ELSE "Heightened / Caution")

C11_Witness ==
  /\ ui.event = "set_accl"
  /\ ss.accl_status = "Not acclimatized"
  /\ InLowerShiftRange(Val(ss.wbgt_eff_c))
  /\ ss.thr_A_c = Some(27 * Tick)
  /\ BandIs(ss, "Heightened / Caution")

(* C12: every cycle leaves the audit log as it was or appends one entry at *)
(* its end, and appends only when the cycle ends with penalties_applied    *)
(* true and an effective WBGT present.                                     *)
IsPrefixPlusOne(old, new) ==
  /\ Len(new) = Len(old) + 1
  /\ SubSeq(new, 1, Len(old)) = old

C12_LogAppendOnlyAndGated ==
  [][/\ \/ ss'.audit_log = ss.audit_log
        \/ IsPrefixPlusOne(ss.audit_log, ss'.audit_log)
     /\ ss'.audit_log # ss.audit_log =>
          (ss'.penalties_applied /\ ss'.wbgt_eff_c # None)
     /\ ~ss'.penalties_applied => ss'.audit_log = ss.audit_log]_vars

C12_Witness ==
  /\ Len(ss.audit_log) >= 2
  /\ ss.audit_log[1] # ss.audit_log[2]
  /\ ss.penalties_applied
  /\ ui.event = "apply"

(* C13: a candidate entry equal in every field to the log's last entry is  *)
(* not appended, and no two adjacent entries of the log are equal.         *)
NoAdjacentDuplicates(log) ==
  \A i \in 1..(Len(log) - 1) : log[i] # log[i + 1]

CandidateEqualsLast(s, t, log) ==
  /\ s.penalties_applied
  /\ s.wbgt_eff_c # None
  /\ log # <<>>
  /\ LogEntry(s, t) = log[Len(log)]

C13_AdjacentDuplicateSuppressed ==
  [][/\ CandidateEqualsLast(ss', now', ss.audit_log) =>
          ss'.audit_log = ss.audit_log
     /\ NoAdjacentDuplicates(ss'.audit_log)]_vars

C13_Witness ==
  /\ ui.event = "rerun"
  /\ Len(ss.audit_log) = 1
  /\ CandidateEqualsLast(ss, now, ss.audit_log)
  /\ cycles >= 3


(* C14: once penalties are applied, a later cycle in which nothing changed *)
(* (same reading, same committed penalties, same acclimatization status,   *)
(* same location label, no action) leaves the audit log unchanged,         *)
(* whatever the time at which it runs.                                     *)
NothingChangedCycle ==
  /\ ui'.event = "rerun"
  /\ SigFields(ss') = SigFields(ss)
  /\ ss'.p_kpa = ss.p_kpa
  /\ ss'.total_penalty_c = ss.total_penalty_c
  /\ ss'.wbgt_eff_c = ss.wbgt_eff_c
  /\ ss'.accl_status = ss.accl_status
  /\ ss'.place_label = ss.place_label

C14_NoRerenderDuplicates ==
  [][(ss.penalties_applied /\ NothingChangedCycle) =>
       ss'.audit_log = ss.audit_log]_vars


(* C15: at the end of every cycle, audit export is enabled if and only if  *)
(* penalties_applied is true, whatever the size of the log.                *)
C15_ExportGatedByApplied ==
  ss.landing_open =>
    /\ ui.can_export <=> ss.penalties_applied
    /\ ui.has_log <=> ss.audit_log # <<>>

C15_Witness ==
  /\ ss.landing_open
  /\ ~ss.penalties_applied
  /\ Len(ss.audit_log) >= 1
  /\ ui.has_log
  /\ ~ui.can_export


(* C19 as stated: the surrogate index equals clamp((e-25)*5, 0, 50).       *)
ExactSurrogate(e) ==
  IF (e - 25 * Tick) * 5 < 0 THEN 0
  ELSE IF (e - 25 * Tick) * 5 > 50 * Tick THEN 50 * Tick
  ELSE (e - 25 * Tick) * 5

C19_SurrogateExact ==
  cycles = 1 => ss.chsi_scaled = Some(ExactSurrogate(Val(ss.wbgt_eff_c)))

(* C19 as amended: the surrogate index is ((e-25)/10)*50 as the floating   *)
(* point operations round it, clamped to [0,50]: it is within the rounding *)
(* of one division and one multiplication of clamp((e-25)*5, 0, 50), is    *)
(* exactly 0 for e <= 25 and exactly 50 for e >= 35, always lies in        *)
(* [0,50], and is non-decreasing in e.                                     *)
(* Half a tick lost by the division, scaled by 50, and the rounding of the *)
(* multiplication, in ticks.                                               *)
SurrogateRounding == (50 \div 2) + 1

SurrogateOf(s) == Val(s.chsi_scaled)

SurrogateNonDecreasing ==
  \A e1 \in EffVals, e2 \in EffVals :
    e1 <= e2 => ChsiScaled(e1) <= ChsiScaled(e2)

C19_SurrogateBounded ==
  cycles = 1 =>
    /\ ss.chsi_scaled # None
    /\ SurrogateOf(ss) >= 0
    /\ SurrogateOf(ss) <= 50 * Tick
    /\ Val(ss.wbgt_eff_c) <= 25 * Tick => SurrogateOf(ss) = 0
    /\ Val(ss.wbgt_eff_c) >= 35 * Tick => SurrogateOf(ss) = 50 * Tick
    /\ Abs(SurrogateOf(ss) - ExactSurrogate(Val(ss.wbgt_eff_c)))
         <= SurrogateRounding
    /\ SurrogateNonDecreasing

C19_Witness ==
  /\ cycles = 1
  /\ ss.wbgt_eff_c = Opened.ss.wbgt_eff_c
  /\ SurrogateOf(ss) # ExactSurrogate(Val(ss.wbgt_eff_c))
  /\ SurrogateOf(ss) > 0
  /\ SurrogateOf(ss) < 50 * Tick


(* C20: a cycle in which only pressure, the acclimatization status, the    *)
(* location label or the display-unit selection differs from the previous  *)
(* cycle, with dry bulb, RH, globe temperature and wind speed unchanged,   *)
(* leaves the frozen baseline, penalties_applied, the committed total and  *)
(* the effective WBGT unchanged.                                           *)
NonSignatureEvents == {"set_p", "set_accl", "search", "set_units"}

C20_OnlySignatureInvalidates ==
  [][(/\ ss.prev_env # None
      /\ ui'.event \in NonSignatureEvents
      /\ SigFields(ss') = SigFields(ss)) =>
       /\ ss'.wbgt_base_frozen = ss.wbgt_base_frozen
       /\ ss'.penalties_applied = ss.penalties_applied
       /\ ss'.total_penalty_c = ss.total_penalty_c
       /\ ss'.wbgt_eff_c = ss.wbgt_eff_c]_vars

C20_Witness ==
  /\ ui.event = "set_units"
  /\ ss.units = "imperial"
  /\ ~ui.reset
  /\ ss.penalties_applied
  /\ ss.total_penalty_c > 0
  /\ ss.wbgt_eff_c = Some(FAdd(Val(ss.wbgt_base_frozen), ss.total_penalty_c))


(* C17: when a weather fetch yields no usable result (no location set, or  *)
(* a response without current values), the stored reading, the frozen      *)
(* baseline, penalties_applied, the committed total and the audit log are, *)
(* after the cycle, what they would have been without the fetch.           *)
NoCurrentValues == [temp |-> None, rh |-> None, ws |-> None]

FetchWithoutResult ==
  /\ ui'.event = "fetch"
  /\ \/ "fetch_no_location" \in ui'.msgs
     \/ ui'.response = Some(NoCurrentValues)

CoreState(s) ==
  <<s.db_c, s.rh_pct, s.ws_ms, s.p_kpa, s.gt_c, s.wbgt_base_frozen,
    s.penalties_applied, s.total_penalty_c, s.audit_log>>

WithoutFetch == Run(ss, [kind |-> "rerun"], now').ss

C17_FailedFetchChangesNothing ==
  [][FetchWithoutResult => CoreState(ss') = CoreState(WithoutFetch)]_vars


(* C18 as stated: for each distinct signature value the frozen baseline is *)
(* assigned at most once, also when the environment leaves a signature and *)
(* later returns to it.                                                    *)
C18_OncePerSignature ==
  \A i \in 1..Len(assigned), j \in 1..Len(assigned) :
    i # j => assigned[i].sig # assigned[j].sig

(* C18 as amended: the frozen baseline is assigned once per run of         *)
(* consecutive cycles with the same signature, in the first cycle of the   *)
(* run; on a return to an earlier signature it is assigned again, to the   *)
(* value it had for that signature before.                                 *)
SameSignatureSameValue(history) ==
  \A i \in 1..Len(history), j \in 1..Len(history) :
    history[i].sig = history[j].sig => history[i].value = history[j].value

C18_OncePerSignatureRun ==
  [][/\ assigned' # assigned <=>
          (ss.prev_env = None \/ SigFields(ss') # SigFields(ss))
     /\ \/ assigned' = assigned
        \/ IsPrefixPlusOne(assigned, assigned')
     /\ assigned'[Len(assigned')].value = ss'.wbgt_base_frozen
     /\ SigFields(ss') = <<assigned'[Len(assigned')].sig.db,
                           assigned'[Len(assigned')].sig.rh,
                           assigned'[Len(assigned')].sig.gt,
                           assigned'[Len(assigned')].sig.ws>>
     /\ SameSignatureSameValue(assigned')]_vars

C18_Witness ==
  /\ Len(assigned) = 3
  /\ assigned[1].sig = assigned[3].sig
  /\ assigned[1].sig # assigned[2].sig
  /\ assigned[1].value = assigned[3].value
  /\ ui.event = "set_db"


(* C16: when apply is evaluated while the frozen baseline is absent, an    *)
(* error is reported and the apply step changes nothing: the committed     *)
(* total, the effective WBGT, penalties_applied and the audit log are as   *)
(* before, and the rest of the cycle still runs.                           *)
RestOfCycleRan ==
  /\ <<ss'.thr_A_c, ss'.thr_B_c, ss'.thr_C_c>> = ThresholdsOf(ss'.accl_status)
  /\ ss'.wbgt_eff_c = None => "no_wbgt_yet" \in ui'.msgs
  /\ ui'.can_export <=> ss'.penalties_applied
  /\ ui'.has_log <=> ss'.audit_log # <<>>

C16_ApplyWithoutBaselineChangesNothing ==
  [][(ui'.event = "apply" /\ ss.wbgt_base_frozen = None) =>
       /\ "apply_no_baseline" \in ui'.msgs
       /\ "apply_ok" \notin ui'.msgs
       /\ ss'.total_penalty_c = ss.total_penalty_c
       /\ ss'.wbgt_eff_c = ss.wbgt_eff_c
       /\ ss'.penalties_applied = ss.penalties_applied
       /\ ss'.wbgt_base_frozen = ss.wbgt_base_frozen
       /\ ss'.audit_log = ss.audit_log
       /\ RestOfCycleRan]_vars

C16_Witness ==
  /\ cycles = 1
  /\ "apply_no_baseline" \in ui.msgs
  /\ ss.pen_clo_c > 0
  /\ ~ss.penalties_applied
  /\ ss.total_penalty_c = 0
  /\ ss.thr_A_c # None


----------------------------------------------------------------------------
(* The staged penalties are the ones the last apply committed.             *)
StagedAsCommitted(before, after) ==
  /\ before.penalties_applied
  /\ before.total_penalty_c =
       TotalPenalty(after.pen_clo_c, after.pen_veh_c,
                    after.pen_rad_c, after.pen_adhoc_c)

(* C21: apply does not accumulate.  An apply cycle leaves the frozen        *)
(* baseline and the stored signature as they were, and when penalties are  *)
(* already applied and the staged penalties are those already committed,   *)
(* the effective WBGT after the second apply is the one after the first:   *)
(* the frozen baseline plus the total, never the old effective plus it.    *)
C21_ApplyDoesNotAccumulate ==
  [][ui'.event = "apply" =>
       /\ ss'.wbgt_base_frozen = ss.wbgt_base_frozen
       /\ ss'.prev_env = ss.prev_env
       /\ StagedAsCommitted(ss, ss') =>
            /\ ss'.wbgt_eff_c = ss.wbgt_eff_c
            /\ ss'.wbgt_eff_c =
                 Some(FAdd(Val(ss.wbgt_base_frozen), ss.total_penalty_c))]_vars

(* Two applies of the same positive total: the second one, a second later, *)
(* logged a second entry with the same effective value.                    *)
C21_Witness ==
  /\ ui.event = "apply"
  /\ Len(ss.audit_log) = 2
  /\ ss.audit_log[1].Penalty_total > 0
  /\ ss.audit_log[2].Penalty_total = ss.audit_log[1].Penalty_total
  /\ ss.audit_log[2].WBGT_eff = ss.audit_log[1].WBGT_eff
  /\ ss.audit_log[2].timestamp # ss.audit_log[1].timestamp
  /\ ss.wbgt_eff_c = Some(FAdd(Val(ss.wbgt_base_frozen), ss.total_penalty_c))


----------------------------------------------------------------------------
LastEntry(s) == s.audit_log[Len(s.audit_log)]

(* C22: at the end of every cycle the frozen baseline is the raw WBGT of   *)
(* the current reading, which that cycle stored again from the four        *)
(* signature fields; so, while penalties are applied, the baseline printed *)
(* in the newest audit entry (read from the raw value) is the frozen       *)
(* baseline that the entry's effective WBGT was computed from.             *)
C22_FrozenIsRawOfReading ==
  ss.landing_open =>
    /\ ss.wbgt_base_frozen # None
    /\ ss.wbgt_raw_c = Some(WbgtTable[EnvNow(ss)])
    /\ ss.wbgt_base_c = ss.wbgt_raw_c
    /\ ss.wbgt_base_frozen = ss.wbgt_raw_c
    /\ ss.penalties_applied =>
         /\ ss.audit_log # <<>>
         /\ LastEntry(ss).WBGT_baseline = Fmt1(Val(ss.wbgt_base_frozen))
         /\ LastEntry(ss).WBGT_eff =
              Fmt1(FAdd(Val(ss.wbgt_base_frozen), ss.total_penalty_c))

(* A positive total applied on a reading other than the default one,       *)
(* logged with the frozen baseline of that reading.                        *)
C22_Witness ==
  /\ ui.event = "apply"
  /\ ss.penalties_applied
  /\ ss.total_penalty_c > 0
  /\ SigFields(ss) # SigFields(ss_default)
  /\ ss.audit_log # <<>>
  /\ LastEntry(ss).WBGT_baseline = Fmt1(Val(ss.wbgt_base_frozen))
  /\ LastEntry(ss).WBGT_eff > LastEntry(ss).WBGT_baseline


----------------------------------------------------------------------------
(* The step appended an audit entry.                                       *)
EntryAppended == Len(ss'.audit_log) = Len(ss.audit_log) + 1

(* The entry is the snapshot of the session s: band and surrogate classify *)
(* the effective WBGT of s under the thresholds of its acclimatization     *)
(* flag, and the effective WBGT is baseline plus total penalty.            *)
EntryConsistent(e, s) ==
  /\ s.wbgt_eff_c # None
  /\ e.Risk = Some(Band(Val(s.wbgt_eff_c),
                        Val(ThresholdsOf(s.accl_status)[1]),
                        Val(ThresholdsOf(s.accl_status)[2]),
                        Val(ThresholdsOf(s.accl_status)[3])))
  /\ e.CHSI_scaled = Fmt0(ChsiScaled(Val(s.wbgt_eff_c)))
  /\ e.WBGT_eff = Fmt1(Val(s.wbgt_eff_c))
  /\ e.WBGT_baseline = Fmt1(Val(s.wbgt_base_c))
  /\ e.Penalty_total = Fmt1(s.total_penalty_c)
  /\ s.wbgt_eff_c = Some(FAdd(Val(s.wbgt_base_c), s.total_penalty_c))

(* C23: every audit entry is consistent with the cycle that appended it:   *)
(* its band and surrogate are the classification of that cycle's effective *)
(* WBGT under the thresholds of the acclimatization flag in force in that  *)
(* cycle, and its effective WBGT is its baseline plus its total penalty,   *)
(* before the values are rounded for display.                              *)
C23_EntryConsistentWithItsCycle ==
  [][EntryAppended => EntryConsistent(LastEntry(ss'), ss')]_vars

(* An entry appended by the cycle that changed the acclimatization flag:   *)
(* same effective WBGT as the entry before it, another band.               *)
C23_Witness ==
  /\ ui.event = "set_accl"
  /\ Len(ss.audit_log) = 2
  /\ ss.audit_log[2].WBGT_eff = ss.audit_log[1].WBGT_eff
  /\ ss.audit_log[2].Risk # ss.audit_log[1].Risk
  /\ ss.audit_log[2].Risk = ss.risk_band
  /\ ss.total_penalty_c > 0


----------------------------------------------------------------------------
(* C24: at the end of every cycle, if the export button is enabled then    *)
(* the audit log has at least one entry (and the table is shown), so an    *)
(* enabled export never downloads an empty file.  The converse is not      *)
(* stated.                                                                 *)
C24_EnabledExportHasEntries ==
  ui.can_export => (ss.audit_log # <<>> /\ ui.has_log)

(* Export enabled by an apply of a zero total: the one entry it logged.    *)
C24_Witness ==
  /\ ui.can_export
  /\ ui.event = "apply"
  /\ ss.total_penalty_c = 0
  /\ Len(ss.audit_log) = 1


----------------------------------------------------------------------------
(* C25: in every cycle the thresholds shown in the sidebar's risk-band     *)
(* reference are the thresholds the classifier uses in that same cycle,    *)
(* the cycle that changes the acclimatization flag included.               *)
C25_SidebarShowsClassifierThresholds ==
  ss.landing_open =>
    ui.sidebar = <<Val(ss.thr_A_c), Val(ss.thr_B_c), Val(ss.thr_C_c)>>

====
